---------------------------- MODULE Spec2Model ----------------------------
(***************************************************************************)
(* The checkpoint oracle of src/checkpoints.cpp: two compiled-in tables of *)
(* (height, block hash) pairs with their calibration data, and the six     *)
(* queries over them: CheckBlock, GuessVerificationProgress,               *)
(* GetTotalBlocksEstimate, GetLastCheckpoint, GetLastAvailableCheckpoint   *)
(* and GetLatestHardenedCheckpoint.                                        *)
(*                                                                         *)
(* A 256-bit block hash is only ever compared for equality, so each hash   *)
(* is a small integer that names it.  A double is the exact rational it    *)
(* approximates, kept in lowest terms; IEEE rounding is monotone, so the   *)
(* order and range statements below carry over to the rounded values.      *)
(***************************************************************************)
EXTENDS Integers, Sequences, FiniteSets, TLC

VARIABLES
    fTestNet,               \* main.h: the process-wide network mode
    argCheckpoints,         \* what GetBoolArg("-checkpoints", true) returns
    mapCheckpoints,         \* static MapCheckpoints mapCheckpoints
    mapCheckpointsTestnet,  \* static MapCheckpoints mapCheckpointsTestnet
    mapBlockIndex,          \* main.h: the global block index, hash -> CBlockIndex*
    hashGenesisBlock,       \* main.h: the genesis block hash
    call                    \* the last call of the oracle: operation, arguments, result

vars == <<fTestNet, argCheckpoints, mapCheckpoints, mapCheckpointsTestnet,
          mapBlockIndex, hashGenesisBlock, call>>

----------------------------------------------------------------------------
(* Bounds of the model *)

\* The block index holds at most this many blocks.
MaxIndex == 2

----------------------------------------------------------------------------
(* The compiled-in data *)

\* How many times slower a transaction after the last checkpoint is expected to be.
fSigcheckVerificationFactor == 5

\* Seconds per day, the 86400.0 of the progress estimate.
SecondsPerDay == 86400

\* The hash literals of the production table are named 1..9 in table order:
\*   1 = 0x00000076d8...167155x (height 0)     6 = 0x0000000062...b1a159 (5000)
\*   2 = 0x00000dd113...aa18c4 (1000)          7 = 0x0000000012...847902 (6000)
\*   3 = 0x0000002f15...067dce (2000)          8 = 0x0000000000 83394c...8f7fd6 (7000)
\*   4 = 0x000000002c...29c6a4 (3000)          9 = 0x0000000000 ff52a2...3e724d (7387)
\*   5 = 0x000000001a...8358a6 (4000)
MapCheckpointsLiteral ==
    (0 :> 1) @@ (1000 :> 2) @@ (2000 :> 3) @@ (3000 :> 4) @@ (4000 :> 5) @@
    (5000 :> 6) @@ (6000 :> 7) @@ (7000 :> 8) @@ (7387 :> 9)

\* The test table: height 44, uint256("0"), the zero hash.
MapCheckpointsTestnetLiteral == (44 :> 0)

\* Every hash the model tells apart: the ten of the tables and one more.
Hashes == 0 .. 10

Range(m) == {m[k] : k \in DOMAIN m}

\* A hash that is in neither table.
ForeignHash ==
    CHOOSE h \in Hashes :
        h \notin Range(MapCheckpointsLiteral) \cup Range(MapCheckpointsTestnetLiteral)

\* static const CCheckpointData data; mapCheckpoints is the pointer it holds.
data ==
    [mapCheckpoints              |-> "mapCheckpoints",
     nTimeLastCheckpoint         |-> 1403925464,
     nTransactionsLastCheckpoint |-> 25000,
     fTransactionsPerDay         |-> 800]

\* static const CCheckpointData dataTestnet.
dataTestnet ==
    [mapCheckpoints              |-> "mapCheckpointsTestnet",
     nTimeLastCheckpoint         |-> 1393373461,
     nTransactionsLastCheckpoint |-> 3000,
     fTransactionsPerDay         |-> 30]

\* Checkpoints() as it would be if it overlooked the network mode.
CheckpointsOfProduction == data

\* const CCheckpointData &Checkpoints()
Checkpoints == IF fTestNet THEN dataTestnet ELSE data

\* *p for a const MapCheckpoints *p
Deref(p) == IF p = "mapCheckpoints" THEN mapCheckpoints ELSE mapCheckpointsTestnet

----------------------------------------------------------------------------
(* Pointers to CBlockIndex *)

NULL == [null |-> TRUE]

\* A block of the index: its own hash and CBlockIndex::IsInMainChain().
IndexBlock(h, inMain) == [null |-> FALSE, phashBlock |-> h, fInMainChain |-> inMain]

\* A block handed to the progress estimate: the two fields it reads.
ProgressBlock(tx, t) == [null |-> FALSE, nChainTx |-> tx, nTime |-> t]

----------------------------------------------------------------------------
(* std::map *)

SetMax(S) == CHOOSE x \in S : \A y \in S : y <= x

\* The keys of a map in descending order: the order BOOST_REVERSE_FOREACH visits.
RECURSIVE Descending(_)
Descending(S) ==
    IF S = {} THEN <<>>
    ELSE LET mx == SetMax(S) IN <<mx>> \o Descending(S \ {mx})

\* map::count(key)
Count(m, key) == IF key \in DOMAIN m THEN 1 ELSE 0

\* map::operator[](key): the map afterwards and the value; a missing key is
\* inserted with a value-initialised (null) pointer.
Subscript(m, key) ==
    IF key \in DOMAIN m
    THEN [map |-> m, value |-> m[key]]
    ELSE [map |-> m @@ (key :> NULL), value |-> NULL]

----------------------------------------------------------------------------
(* Doubles, as exact rationals n/d in lowest terms with d > 0.  A division *)
(* by zero gives d = 0: n = 1 is +inf, n = -1 is -inf and n = 0 is NaN.    *)

Abs(x) == IF x < 0 THEN -x ELSE x

Sign(x) == IF x < 0 THEN -1 ELSE IF x = 0 THEN 0 ELSE 1

RECURSIVE GCD(_, _)
GCD(a, b) == IF b = 0 THEN a ELSE GCD(b, a % b)

\* n/d for d # 0, in lowest terms
Rat(n, d) ==
    LET g == GCD(Abs(n), Abs(d))
    IN  [n |-> Sign(d) * (n \div g), d |-> Abs(d) \div g]

\* The double an integer converts to.
ToDouble(i) == [n |-> i, d |-> 1]

RatAdd(x, y) ==
    LET g == GCD(x.d, y.d)
    IN  Rat(x.n * (y.d \div g) + y.n * (x.d \div g), (x.d \div g) * y.d)

\* The factors are reduced crosswise first, which keeps the products small.
RatMul(x, y) ==
    LET g1 == GCD(Abs(x.n), y.d)
        g2 == GCD(Abs(y.n), x.d)
    IN  IF x.n = 0 \/ y.n = 0 THEN ToDouble(0)
        ELSE [n |-> (x.n \div g1) * (y.n \div g2), d |-> (x.d \div g2) * (y.d \div g1)]

\* x / y; x / 0.0 is an infinity of x's sign, and 0.0 / 0.0 is NaN.
RatDiv(x, y) ==
    IF y.n = 0 THEN [n |-> Sign(x.n), d |-> 0]
    ELSE RatMul(x, [n |-> Sign(y.n) * y.d, d |-> Abs(y.n)])

IsFinite(x) == x.d > 0

\* a/b <= c/d for b, d > 0, by the continued fractions of the two.
RECURSIVE FracLeq(_, _, _, _)
FracLeq(a, b, c, d) ==
    LET qa == a \div b
        qc == c \div d
        ra == a % b
        rc == c % d
    IN  IF qa # qc THEN qa < qc
        ELSE IF ra = 0 THEN TRUE
        ELSE IF rc = 0 THEN FALSE
        ELSE FracLeq(d, rc, b, ra)

\* x <= y on doubles: false when either is NaN.
Leq(x, y) ==
    IF x.d = 0 /\ x.n = 0 THEN FALSE
    ELSE IF y.d = 0 /\ y.n = 0 THEN FALSE
    ELSE IF x.d = 0 THEN x.n < 0 \/ (y.d = 0 /\ y.n > 0)
    ELSE IF y.d = 0 THEN y.n > 0
    ELSE FracLeq(x.n, x.d, y.n, y.d)

----------------------------------------------------------------------------
(* The six queries, as the functions they compute *)

\* CheckBlock as it would be if a height without a checkpoint were refused.
CheckBlockRefusingUnknownHeight(nHeight, hash) ==
    IF fTestNet THEN TRUE
    ELSE IF ~argCheckpoints THEN TRUE
    ELSE LET checkpoints == Deref(Checkpoints.mapCheckpoints)
         IN  IF nHeight \notin DOMAIN checkpoints THEN FALSE
             ELSE hash = checkpoints[nHeight]

\* CheckBlock as it would be without the test network's exemption.
CheckBlockWithoutTestnetExemption(nHeight, hash) ==
    IF ~argCheckpoints THEN TRUE
    ELSE LET checkpoints == Deref(Checkpoints.mapCheckpoints)
         IN  IF nHeight \notin DOMAIN checkpoints THEN TRUE
             ELSE hash = checkpoints[nHeight]

\* bool CheckBlock(int nHeight, const uint256& hash)
CheckBlock(nHeight, hash) ==
    IF fTestNet THEN TRUE
    ELSE IF ~argCheckpoints THEN TRUE
    ELSE LET checkpoints == Deref(Checkpoints.mapCheckpoints)
         IN  IF nHeight \notin DOMAIN checkpoints THEN TRUE
             ELSE hash = checkpoints[nHeight]

\* ProgressWork as it would be with the elapsed time taken the wrong way round.
ProgressWorkClockReversed(pindex, nNow) ==
    LET d == Checkpoints
        factor == ToDouble(fSigcheckVerificationFactor)
        perDay(seconds) ==
            RatMul(RatDiv(ToDouble(seconds), ToDouble(SecondsPerDay)),
                   ToDouble(d.fTransactionsPerDay))
    IN  IF pindex.nChainTx <= d.nTransactionsLastCheckpoint
        THEN [fWorkBefore |-> ToDouble(pindex.nChainTx),
              fWorkAfter  |->
                  RatAdd(ToDouble(d.nTransactionsLastCheckpoint - pindex.nChainTx),
                         RatMul(perDay(d.nTimeLastCheckpoint - nNow), factor))]
        ELSE [fWorkBefore |->
                  RatAdd(ToDouble(d.nTransactionsLastCheckpoint),
                         RatMul(ToDouble(pindex.nChainTx - d.nTransactionsLastCheckpoint),
                                factor)),
              fWorkAfter  |-> RatMul(perDay(pindex.nTime - nNow), factor)]

\* The body of GuessVerificationProgress for a block: fWorkBefore, the work done
\* before pindex, and fWorkAfter, the work estimated to be left after it, with
\* nNow the value time(NULL) returns.
ProgressWork(pindex, nNow) ==
    LET d == Checkpoints
        factor == ToDouble(fSigcheckVerificationFactor)
        perDay(seconds) ==
            RatMul(RatDiv(ToDouble(seconds), ToDouble(SecondsPerDay)),
                   ToDouble(d.fTransactionsPerDay))
    IN  IF pindex.nChainTx <= d.nTransactionsLastCheckpoint
        THEN LET nCheapBefore == ToDouble(pindex.nChainTx)
                 nCheapAfter ==
                     ToDouble(d.nTransactionsLastCheckpoint - pindex.nChainTx)
                 nExpensiveAfter == perDay(nNow - d.nTimeLastCheckpoint)
             IN  [fWorkBefore |-> nCheapBefore,
                  fWorkAfter  |-> RatAdd(nCheapAfter, RatMul(nExpensiveAfter, factor))]
        ELSE LET nCheapBefore == ToDouble(d.nTransactionsLastCheckpoint)
                 nExpensiveBefore ==
                     ToDouble(pindex.nChainTx - d.nTransactionsLastCheckpoint)
                 nExpensiveAfter == perDay(nNow - pindex.nTime)
             IN  [fWorkBefore |-> RatAdd(nCheapBefore, RatMul(nExpensiveBefore, factor)),
                  fWorkAfter  |-> RatMul(nExpensiveAfter, factor)]

\* GuessVerificationProgress as it would be if it returned the share of the work
\* that is left.
GuessVerificationProgressOfWorkLeft(pindex, nNow) ==
    IF pindex = NULL THEN ToDouble(0)
    ELSE LET work == ProgressWork(pindex, nNow)
         IN  RatDiv(work.fWorkAfter, RatAdd(work.fWorkBefore, work.fWorkAfter))

\* double GuessVerificationProgress(CBlockIndex *pindex)
GuessVerificationProgress(pindex, nNow) ==
    IF pindex = NULL THEN ToDouble(0)
    ELSE LET work == ProgressWork(pindex, nNow)
         IN  RatDiv(work.fWorkBefore, RatAdd(work.fWorkBefore, work.fWorkAfter))

\* What reading rbegin() of a map yields: its last entry, or, for an empty map, where
\* the read is undefined, any value at all or a crash.
RBegin(m, values) ==
    IF DOMAIN m = {}
    THEN {[ub |-> TRUE, crashed |-> c, first |-> 0, second |-> v] :
              c \in BOOLEAN, v \in values}
    ELSE LET k == SetMax(DOMAIN m)
         IN  {[ub |-> FALSE, crashed |-> FALSE, first |-> k, second |-> m[k]]}

\* GetTotalBlocksEstimate as it would be if it overlooked the -checkpoints flag.
GetTotalBlocksEstimateIgnoringFlag ==
    IF fTestNet THEN {[ub |-> FALSE, crashed |-> FALSE, ret |-> 0]}
    ELSE LET checkpoints == Deref(Checkpoints.mapCheckpoints)
         IN  {[ub |-> r.ub, crashed |-> r.crashed, ret |-> r.first] :
                  r \in RBegin(checkpoints, {0})}

\* int GetTotalBlocksEstimate(): the set of its outcomes, one unless the read of
\* rbegin() is undefined.
GetTotalBlocksEstimate ==
    IF fTestNet THEN {[ub |-> FALSE, crashed |-> FALSE, ret |-> 0]}
    ELSE IF ~argCheckpoints THEN {[ub |-> FALSE, crashed |-> FALSE, ret |-> 0]}
    ELSE LET checkpoints == Deref(Checkpoints.mapCheckpoints)
         IN  {[ub |-> r.ub, crashed |-> r.crashed, ret |-> r.first] :
                  r \in RBegin(checkpoints, {0})}

\* The loop of GetLastCheckpoint over the heights still to visit.
RECURSIVE LastCheckpointScan(_, _, _)
LastCheckpointScan(checkpoints, heights, index) ==
    IF heights = <<>> THEN NULL
    ELSE LET hash == checkpoints[Head(heights)]
         IN  IF hash \in DOMAIN index THEN index[hash]
             ELSE LastCheckpointScan(checkpoints, Tail(heights), index)

\* GetLastCheckpoint as it would be with a forward loop, lowest height first.
GetLastCheckpointLowestFirst(index) ==
    IF fTestNet THEN NULL
    ELSE IF ~argCheckpoints THEN NULL
    ELSE LET checkpoints == Deref(Checkpoints.mapCheckpoints)
             down == Descending(DOMAIN checkpoints)
             up == [i \in 1 .. Len(down) |-> down[Len(down) + 1 - i]]
         IN  LastCheckpointScan(checkpoints, up, index)

\* CBlockIndex* GetLastCheckpoint(const std::map<uint256, CBlockIndex*>& mapBlockIndex)
GetLastCheckpoint(index) ==
    IF fTestNet THEN NULL
    ELSE IF ~argCheckpoints THEN NULL
    ELSE LET checkpoints == Deref(Checkpoints.mapCheckpoints)
         IN  LastCheckpointScan(checkpoints, Descending(DOMAIN checkpoints), index)

\* The condition as it would be without the main-chain test.
InIndexOnly(index, hash) == [cond |-> Count(index, hash) # 0, map |-> index]

\* The condition as it would be without count(): operator[] alone, which files a
\* null pointer under a hash the index lacks.
InIndexAndMainChainBySubscript(index, hash) ==
    LET s == Subscript(index, hash)
    IN  [cond |-> ~s.value.null /\ s.value.fInMainChain, map |-> s.map]

\* mapBlockIndex.count(hash) && mapBlockIndex[hash]->IsInMainChain(): the value of
\* the condition and the index afterwards.  && evaluates its right side, and with it
\* operator[], only for a hash that count() found.
InIndexAndMainChain(index, hash) ==
    IF Count(index, hash) = 0 THEN [cond |-> FALSE, map |-> index]
    ELSE LET s == Subscript(index, hash)
         IN  [cond |-> s.value.fInMainChain, map |-> s.map]

\* The loop of GetLastAvailableCheckpoint over the heights still to visit: the hash
\* returned and the index afterwards.
RECURSIVE LastAvailableScan(_, _, _)
LastAvailableScan(checkpoints, heights, index) ==
    IF heights = <<>> THEN [ret |-> hashGenesisBlock, map |-> index]
    ELSE LET hash == checkpoints[Head(heights)]
             probe == InIndexAndMainChain(index, hash)
         IN  IF probe.cond THEN [ret |-> hash, map |-> probe.map]
             ELSE LastAvailableScan(checkpoints, Tail(heights), probe.map)

\* uint256 GetLastAvailableCheckpoint(), over the global mapBlockIndex
GetLastAvailableCheckpoint ==
    LET checkpoints == IF fTestNet THEN mapCheckpointsTestnet ELSE mapCheckpoints
    IN  LastAvailableScan(checkpoints, Descending(DOMAIN checkpoints), mapBlockIndex)

\* uint256 GetLatestHardenedCheckpoint(): the set of its outcomes, one unless the
\* read of rbegin() is undefined.
GetLatestHardenedCheckpoint ==
    LET checkpoints == Deref(Checkpoints.mapCheckpoints)
    IN  {[ub |-> r.ub, crashed |-> r.crashed, ret |-> r.second] :
             r \in RBegin(checkpoints, Hashes)}

----------------------------------------------------------------------------
(* The inputs the callers draw from *)

\* Heights handed to CheckBlock: every checkpointed height of either table and one
\* height that neither table holds.
CheckHeights ==
    DOMAIN MapCheckpointsLiteral \cup DOMAIN MapCheckpointsTestnetLiteral \cup {1}

\* Cumulative transaction counts of the blocks handed to the progress estimate:
\* none, and at and just past the transaction count of either calibration.
TxSamples ==
    {0,
     dataTestnet.nTransactionsLastCheckpoint, dataTestnet.nTransactionsLastCheckpoint + 1,
     data.nTransactionsLastCheckpoint, data.nTransactionsLastCheckpoint + 1}

\* Timestamps of those blocks.
BlockTimes == {dataTestnet.nTimeLastCheckpoint, data.nTimeLastCheckpoint + SecondsPerDay}

ProgressBlocks == {ProgressBlock(tx, t) : tx \in TxSamples, t \in BlockTimes}

\* Values of time(NULL): before, between and after the timestamps above.
ClockSamples ==
    {dataTestnet.nTimeLastCheckpoint,
     data.nTimeLastCheckpoint + 1,
     data.nTimeLastCheckpoint + 30 * SecondsPerDay}

\* The hashes of the blocks an index may hold: the two lowest and the two highest
\* checkpoints of the production table, the checkpoint of the test table and a block
\* that is no checkpoint.
IndexHashes ==
    {MapCheckpointsLiteral[0], MapCheckpointsLiteral[1000], MapCheckpointsLiteral[7000],
     MapCheckpointsLiteral[7387], MapCheckpointsTestnetLiteral[44], ForeignHash}

\* The block indexes of at most MaxIndex blocks, each block filed under its own hash.
BlockIndexes ==
    {[h \in S |-> IndexBlock(h, h \in M)] :
        <<S, M>> \in {<<S, M>> \in (SUBSET IndexHashes) \X (SUBSET IndexHashes) :
                         Cardinality(S) <= MaxIndex /\ M \subseteq S}}

----------------------------------------------------------------------------
(* The state machine *)

NoCall == [op |-> "none"]

Init ==
    /\ fTestNet \in BOOLEAN
    /\ argCheckpoints \in BOOLEAN
    /\ mapCheckpoints = MapCheckpointsLiteral
    /\ mapCheckpointsTestnet = MapCheckpointsTestnetLiteral
    /\ mapBlockIndex \in BlockIndexes
    /\ hashGenesisBlock \in {MapCheckpointsLiteral[0], ForeignHash}
    /\ call = NoCall

CheckBlockCall ==
    \E nHeight \in CheckHeights, hash \in Hashes :
        /\ call = NoCall
        /\ call' = [op |-> "CheckBlock", nHeight |-> nHeight, hash |-> hash,
                    ret |-> CheckBlock(nHeight, hash)]
        /\ UNCHANGED <<fTestNet, argCheckpoints, mapCheckpoints, mapCheckpointsTestnet,
                       mapBlockIndex, hashGenesisBlock>>

\* A call of GuessVerificationProgress, by an idle caller or by one that asks again
\* for the block it has just asked for; prev keeps that earlier call.
GuessVerificationProgressCall ==
    \E pindex \in ProgressBlocks \cup {NULL}, nNow \in ClockSamples :
        /\ \/ call = NoCall
           \/ call.op = "GuessVerificationProgress" /\ call.pindex = pindex
        /\ call' = [op |-> "GuessVerificationProgress", pindex |-> pindex,
                    nNow |-> nNow, ret |-> GuessVerificationProgress(pindex, nNow),
                    prev |-> IF call.op = "GuessVerificationProgress"
                                  /\ call.pindex = pindex
                             THEN [some |-> TRUE, nNow |-> call.nNow, ret |-> call.ret]
                             ELSE [some |-> FALSE]]
        /\ UNCHANGED <<fTestNet, argCheckpoints, mapCheckpoints, mapCheckpointsTestnet,
                       mapBlockIndex, hashGenesisBlock>>

GetTotalBlocksEstimateCall ==
    \E o \in GetTotalBlocksEstimate :
        /\ call = NoCall
        /\ call' = [op |-> "GetTotalBlocksEstimate", ub |-> o.ub,
                    crashed |-> o.crashed, ret |-> o.ret]
        /\ UNCHANGED <<fTestNet, argCheckpoints, mapCheckpoints, mapCheckpointsTestnet,
                       mapBlockIndex, hashGenesisBlock>>

GetLastCheckpointCall ==
    /\ call = NoCall
    /\ call' = [op |-> "GetLastCheckpoint", ret |-> GetLastCheckpoint(mapBlockIndex)]
    /\ UNCHANGED <<fTestNet, argCheckpoints, mapCheckpoints, mapCheckpointsTestnet,
                   mapBlockIndex, hashGenesisBlock>>

GetLastAvailableCheckpointCall ==
    LET r == GetLastAvailableCheckpoint
    IN  /\ call = NoCall
        /\ call' = [op |-> "GetLastAvailableCheckpoint", ret |-> r.ret]
        /\ mapBlockIndex' = r.map
        /\ UNCHANGED <<fTestNet, argCheckpoints, mapCheckpoints, mapCheckpointsTestnet,
                       hashGenesisBlock>>

GetLatestHardenedCheckpointCall ==
    \E o \in GetLatestHardenedCheckpoint :
        /\ call = NoCall
        /\ call' = [op |-> "GetLatestHardenedCheckpoint", ub |-> o.ub,
                    crashed |-> o.crashed, ret |-> o.ret]
        /\ UNCHANGED <<fTestNet, argCheckpoints, mapCheckpoints, mapCheckpointsTestnet,
                       mapBlockIndex, hashGenesisBlock>>

\* The caller takes the result; the oracle keeps nothing of the call.
Return ==
    /\ call # NoCall
    /\ call' = NoCall
    /\ UNCHANGED <<fTestNet, argCheckpoints, mapCheckpoints, mapCheckpointsTestnet,
                   mapBlockIndex, hashGenesisBlock>>

Next ==
    \/ CheckBlockCall
    \/ GuessVerificationProgressCall
    \/ GetTotalBlocksEstimateCall
    \/ GetLastCheckpointCall
    \/ GetLastAvailableCheckpointCall
    \/ GetLatestHardenedCheckpointCall
    \/ Return

Spec == Init /\ [][Next]_vars

----------------------------------------------------------------------------
(* The properties *)

\* The table of the active network.
ActiveTable == IF fTestNet THEN mapCheckpointsTestnet ELSE mapCheckpoints

\* Checkpoints are enforced: production network, -checkpoints not turned off.
Enforced == ~fTestNet /\ argCheckpoints

\* The heights of the active table whose hash is a key of the block index.
IndexedHeights == {h \in DOMAIN ActiveTable : ActiveTable[h] \in DOMAIN mapBlockIndex}

\* Those of them whose block is in the main chain.
MainChainHeights == {h \in IndexedHeights : mapBlockIndex[ActiveTable[h]].fInMainChain}

\* C1: with checkpoints enforced, CheckBlock(h, x) returns false exactly when the
\* active table has an entry at h whose hash differs from x; so every hash passes at
\* a height without an entry and exactly one hash, the stored one, passes at a
\* checkpointed height.
C1_CheckBlockRejectsExactlyMismatches ==
    Enforced =>
        /\ call.op = "CheckBlock" =>
               (call.ret = FALSE <=>
                    /\ call.nHeight \in DOMAIN ActiveTable
                    /\ ActiveTable[call.nHeight] # call.hash)
        /\ \A h \in DOMAIN ActiveTable :
               {x \in Hashes : CheckBlock(h, x)} = {ActiveTable[h]}

C1_Witness ==
    /\ Enforced
    /\ call.op = "CheckBlock"
    /\ call.nHeight \in DOMAIN ActiveTable
    /\ ActiveTable[call.nHeight] # call.hash
    /\ call.ret = FALSE

\* C2: on the test network, or with checkpoints turned off, CheckBlock returns true
\* for every height and hash, also at a height of the active table whose stored hash
\* differs.
C2_CheckBlockAcceptsWhenNotEnforced ==
    (call.op = "CheckBlock" /\ (fTestNet \/ ~argCheckpoints)) => call.ret = TRUE

C2_Witness ==
    /\ call.op = "CheckBlock"
    /\ fTestNet
    /\ argCheckpoints
    /\ call.nHeight \in DOMAIN ActiveTable
    /\ ActiveTable[call.nHeight] # call.hash
    /\ call.ret = TRUE

\* C3: with checkpoints enforced, GetLastCheckpoint returns the index entry filed
\* under the hash of the highest table entry whose hash is a key of the index, and
\* null when the index holds none of the table's hashes; when not enforced it returns
\* null for every index.
C3_GetLastCheckpointHighestIndexed ==
    call.op = "GetLastCheckpoint" =>
        call.ret = IF Enforced /\ IndexedHeights # {}
                   THEN mapBlockIndex[ActiveTable[SetMax(IndexedHeights)]]
                   ELSE NULL

C3_Witness ==
    /\ call.op = "GetLastCheckpoint"
    /\ Enforced
    /\ Cardinality(IndexedHeights) >= 2
    /\ SetMax(IndexedHeights) # SetMax(DOMAIN ActiveTable)
    /\ call.ret # NULL

\* C4: GetLastAvailableCheckpoint returns the hash of the highest entry of the active
\* table that is a key of the block index and in the main chain, and the genesis hash
\* when no entry is; whatever the -checkpoints flag says, and always a hash.
C4_GetLastAvailableCheckpointHighestMainChain ==
    call.op = "GetLastAvailableCheckpoint" =>
        /\ call.ret = IF MainChainHeights # {}
                      THEN ActiveTable[SetMax(MainChainHeights)]
                      ELSE hashGenesisBlock
        /\ call.ret \in Hashes

C4_Witness ==
    /\ call.op = "GetLastAvailableCheckpoint"
    /\ ~argCheckpoints
    /\ MainChainHeights # {}
    /\ SetMax(MainChainHeights) < SetMax(IndexedHeights)
    /\ call.ret = ActiveTable[SetMax(MainChainHeights)]

\* C5: GetTotalBlocksEstimate returns the highest height of the active table when
\* checkpoints are enforced, and 0 on the test network or with checkpoints off.
C5_GetTotalBlocksEstimateMaxHeight ==
    call.op = "GetTotalBlocksEstimate" =>
        /\ ~call.crashed
        /\ call.ret = IF Enforced THEN SetMax(DOMAIN ActiveTable) ELSE 0

C5_Witness ==
    /\ call.op = "GetTotalBlocksEstimate"
    /\ Enforced
    /\ call.ret = SetMax(DOMAIN mapCheckpoints)
    /\ call.ret > 0

\* The active calibration's timestamp and the block's are not after nNow, and the
\* block's transaction count is not negative.
ClockNotBehind(pindex, nNow) ==
    /\ pindex.nChainTx >= 0
    /\ nNow >= Checkpoints.nTimeLastCheckpoint
    /\ nNow >= pindex.nTime

\* The block is past the last checkpoint's transaction count.
PastCheckpoint(pindex) == pindex.nChainTx > Checkpoints.nTransactionsLastCheckpoint

\* C6, as claimed: for one block, a later value of "now" never gives a smaller result.
C6_ProgressNonDecreasingInNow ==
    (/\ call.op = "GuessVerificationProgress"
     /\ call.prev.some
     /\ call.prev.nNow <= call.nNow)
        => Leq(call.prev.ret, call.ret)

\* C6, amended: for one block with a transaction count that is not negative, and
\* with "now" at or after the checkpoint's timestamp and the block's, a later value of
\* "now" never gives a larger result, in both regimes.
C6_ProgressNonIncreasingInNow ==
    (/\ call.op = "GuessVerificationProgress"
     /\ call.prev.some
     /\ call.pindex # NULL
     /\ call.prev.nNow <= call.nNow
     /\ ClockNotBehind(call.pindex, call.prev.nNow))
        => Leq(call.ret, call.prev.ret)

C6_Witness ==
    /\ call.op = "GuessVerificationProgress"
    /\ call.prev.some
    /\ call.pindex # NULL
    /\ PastCheckpoint(call.pindex)
    /\ call.prev.nNow < call.nNow
    /\ ClockNotBehind(call.pindex, call.prev.nNow)
    /\ call.ret # call.prev.ret
    /\ Leq(call.ret, call.prev.ret)

\* C8: GetLatestHardenedCheckpoint returns the hash of the highest entry of the
\* active network's table, whatever the -checkpoints flag and the block index hold.
C8_GetLatestHardenedCheckpointTableMaximum ==
    call.op = "GetLatestHardenedCheckpoint" =>
        /\ ~call.crashed
        /\ call.ret = ActiveTable[SetMax(DOMAIN ActiveTable)]

C8_Witness ==
    /\ call.op = "GetLatestHardenedCheckpoint"
    /\ fTestNet
    /\ ~argCheckpoints
    /\ call.ret \notin DOMAIN mapBlockIndex
    /\ call.ret = mapCheckpointsTestnet[SetMax(DOMAIN mapCheckpointsTestnet)]

\* C9: the estimate is exactly 0.0 for a null block; for a block with a transaction
\* count that is not negative and "now" at or after the checkpoint's timestamp and
\* the block's, the divisor work-before + work-after is not zero and the result,
\* work-before over that divisor, lies in [0, 1].
C9_ProgressWithinUnitInterval ==
    call.op = "GuessVerificationProgress" =>
        IF call.pindex = NULL THEN call.ret = ToDouble(0)
        ELSE ClockNotBehind(call.pindex, call.nNow) =>
                 LET work == ProgressWork(call.pindex, call.nNow)
                     divisor == RatAdd(work.fWorkBefore, work.fWorkAfter)
                 IN  /\ divisor.n # 0
                     /\ call.ret = RatDiv(work.fWorkBefore, divisor)
                     /\ IsFinite(call.ret)
                     /\ 0 <= call.ret.n
                     /\ call.ret.n <= call.ret.d

C9_Witness ==
    /\ call.op = "GuessVerificationProgress"
    /\ call.pindex # NULL
    /\ PastCheckpoint(call.pindex)
    /\ ClockNotBehind(call.pindex, call.nNow)
    /\ 0 < call.ret.n
    /\ call.ret.n < call.ret.d

\* C10: no step of the oracle changes the tables, the network mode, the -checkpoints
\* flag, the genesis hash or the block index; GetLastAvailableCheckpoint, which probes
\* the index for hashes it does not hold, inserts none of them.
C10_QueriesChangeNothing ==
    [][/\ mapCheckpoints' = mapCheckpoints
       /\ mapCheckpointsTestnet' = mapCheckpointsTestnet
       /\ fTestNet' = fTestNet
       /\ argCheckpoints' = argCheckpoints
       /\ hashGenesisBlock' = hashGenesisBlock
       /\ mapBlockIndex' = mapBlockIndex]_vars

C10_Witness ==
    /\ call.op = "GetLastAvailableCheckpoint"
    /\ \E h \in DOMAIN ActiveTable : ActiveTable[h] \notin DOMAIN mapBlockIndex
    /\ MainChainHeights = {}
    /\ call.ret = hashGenesisBlock

============================================================================
